---- MODULE Spec2Model ----
(***************************************************************************)
(* RedRust (src/main.rs): an in-memory key-value store with String and     *)
(* List values, per-key expiry, a periodic sweeper and a line-oriented     *)
(* command processor.                                                      *)
(*                                                                         *)
(* process_command holds the store lock from line 211 until it returns, so *)
(* each command is one atomic step on the store; cleanup_expired holds the *)
(* lock for its whole body, so a sweep is one atomic step too.  The clock  *)
(* (Instant::now()) is the variable now, advanced by Tick.  Commands are   *)
(* serialized by the lock; the model follows one request at a time, from   *)
(* process_command to the write of its response.                           *)
(*                                                                         *)
(* save_data takes the lock, reads the clocks, filters and converts the    *)
(* entries one by one (is_expired reads the clock again for each), then    *)
(* serializes and writes the file; it is modelled step by step, for the    *)
(* connection thread that runs SAVE and for the worker thread of BGSAVE.   *)
(* A panic while the lock is held poisons the mutex.                       *)
(***************************************************************************)
EXTENDS Integers, Sequences, FiniteSets, TLC

VARIABLES
    db,      \* HashMap<String, Entry> behind the mutex
    now,     \* the monotonic clock, in ticks
    last,    \* the request line just processed and its response, until the
             \* response is written to the stream; NoRequest otherwise
    lock,    \* the mutex of the store: "free", or the thread that holds it
             \* across steps (a save)
    poisoned, \* the mutex is poisoned: a thread panicked while holding it
    saves,   \* save_data as run by each saving thread: where it stands and
             \* its local variables
    file     \* the snapshot file redrust.rdb: NoFile, or its content and
             \* its modification time

vars == <<db, now, last, lock, poisoned, saves, file>>

-----------------------------------------------------------------------------
(* Bounds of the model *)

\* the clock stops advancing here
MaxTime == 2
\* lists never grow beyond this length (pushes that would are not issued)
MaxListLen == 2
\* most values in one LPUSH / RPUSH
MaxPush == 2

KeySet == {"k1", "k2"}
ValSet == {"a", "b"}
\* the seconds a client passes to SET .. EX and EXPIRE
SecsSet == {0, 1}

-----------------------------------------------------------------------------
(* Scales.  The clock and the machine word are modelled at a reduced scale. *)

\* clock ticks per second of Duration::from_secs / as_secs: Instant is
\* finer than a second (10^9 on the target, 2 here)
TicksPerSec == 2
\* width of usize in bits (64 on the target, 16 here): the casts of LRANGE
\* wrap modulo 2^UsizeBits
UsizeBits == 16
\* SystemTime::now() minus Instant::now(), in ticks: the wall clock runs with
\* the monotonic clock and is ahead of it by a time that is no whole number
\* of seconds
WallOffset == 3

-----------------------------------------------------------------------------
(* Option<T> is a set with at most one element *)

None == {}
Some(x) == {x}
Unwrap(o) == CHOOSE x \in o : TRUE

(* Value, Entry *)

StringV(s) == [tag |-> "String", s |-> s, l |-> <<>>]
ListV(l) == [tag |-> "List", s |-> "", l |-> l]
Entry(v, e) == [value |-> v, expires_at |-> e]

(* HashMap operations *)

EmptyMap == [k \in {} |-> Entry(StringV(""), None)]
Insert(m, k, e) == [x \in (DOMAIN m) \cup {k} |-> IF x = k THEN e ELSE m[x]]
Remove(m, k) == [x \in (DOMAIN m) \ {k} |-> m[x]]

\* is_expired with the deadline itself still counted as live (< for <=)
is_expired_strict(entry, t) == \E exp \in entry.expires_at : exp < t

\* entry.expires_at.map(|exp| exp <= Instant::now()).unwrap_or(false)
is_expired(entry, t) == \E exp \in entry.expires_at : exp <= t

-----------------------------------------------------------------------------
\* Responses.  t is the framing: "status" (+s), "err" (-ERR s), "int" (:n),
\* "bulk" ($len s), "nil" ($-1), "array" (count header n followed by the
\* bulk strings elems), or "panic" when the handler unwinds instead of
\* returning.

Resp(t, n, s, elems) == [t |-> t, n |-> n, s |-> s, elems |-> elems]
Status(s) == Resp("status", 0, s, <<>>)
Err(s) == Resp("err", 0, s, <<>>)
Integer(n) == Resp("int", n, "", <<>>)
Bulk(s) == Resp("bulk", 0, s, <<>>)
Nil == Resp("nil", 0, "", <<>>)
Array(n, elems) == Resp("array", n, "", elems)
Panic == Resp("panic", 0, "", <<>>)

WrongType == Err("Operation against a key holding the wrong kind of value")

Result(d, r) == [db |-> d, resp |-> r]

-----------------------------------------------------------------------------
(* Tokens of a request line *)

Max(a, b) == IF a >= b THEN a ELSE b
Min(a, b) == IF a <= b THEN a ELSE b

\* the numerals that occur in request lines of the model
NumeralRange == (0 - (MaxListLen + 2)) .. (MaxListLen + 2)

\* str::parse::<i64>(): Some(i) for a numeral, None for any other token
ParseI64(tok) == {i \in NumeralRange : ToString(i) = tok}

\* u64::MAX and i64::MAX at the scale of the machine word
U64Max == 2 ^ UsizeBits - 1
I64Max == 2 ^ (UsizeBits - 1) - 1

\* str::parse::<u64>(): a numeral without sign, up to u64::MAX
ParseU64(tok) ==
    {i \in NumeralRange \cup {U64Max} : i >= 0 /\ ToString(i) = tok}

\* Option::unwrap_or
UnwrapOr(o, dflt) == IF o = None THEN dflt ELSE Unwrap(o)

\* str::to_uppercase() on the tokens the model issues in lower case;
\* every other token of the model has no lower-case letter in it or is
\* never compared after the conversion
ToUpper(tok) ==
    CASE tok = "get" -> "GET"
      [] tok = "ex" -> "EX"
      [] OTHER -> tok

\* Duration::from_secs(secs), in ticks
from_secs(secs) == secs * TicksPerSec

\* Duration::as_secs(): whole seconds, the fraction dropped
as_secs(ticks) == ticks \div TicksPerSec

\* Instant::duration_since(earlier): zero when earlier is later than self
\* (the saturating behaviour of the standard library since Rust 1.60)
duration_since(exp, earlier) == Max(exp - earlier, 0)

\* Instant + Duration is checked_add(..).expect(..): the seconds of an
\* Instant are an i64, and the sum panics when they overflow
InstantAddOverflows(t, secs) == as_secs(t) + secs > I64Max

\* i64 as usize: two's-complement wrap to the width of usize
AsUsize(x) == x % (2 ^ UsizeBits)

-----------------------------------------------------------------------------
(* process_command, one operator per match arm.  Each takes the tokens of   *)
(* the line, the map d and the clock reading t, and gives the map after the *)
(* command and the response.                                                *)

\* SET that keeps the deadline of the entry it overwrites
SET_keeps_expiry(parts, d, t) ==
    IF Len(parts) < 3
    THEN Result(d, Err("usage: SET key value [EX seconds]"))
    ELSE LET key == parts[2]
             value == StringV(parts[3])
             old == IF key \in DOMAIN d THEN d[key].expires_at ELSE None
         IN  IF Len(parts) >= 5 /\ ToUpper(parts[4]) = "EX"
             THEN LET secs == ParseU64(parts[5])
                  IN  IF secs = None
                      THEN Result(d, Err("invalid expire time"))
                      ELSE Result(Insert(d, key,
                                    Entry(value, Some(t + from_secs(Unwrap(secs))))),
                                  Status("OK"))
             ELSE Result(Insert(d, key, Entry(value, old)), Status("OK"))

SET(parts, d, t) ==
    IF Len(parts) < 3
    THEN Result(d, Err("usage: SET key value [EX seconds]"))
    ELSE LET key == parts[2]
             value == StringV(parts[3])
         IN  IF Len(parts) >= 5 /\ ToUpper(parts[4]) = "EX"
             THEN LET secs == ParseU64(parts[5])
                  IN  IF secs = None
                      THEN Result(d, Err("invalid expire time"))
                      ELSE IF InstantAddOverflows(t, Unwrap(secs))
                      THEN Result(d, Panic)
                      ELSE Result(Insert(d, key,
                                    Entry(value, Some(t + from_secs(Unwrap(secs))))),
                                  Status("OK"))
             ELSE Result(Insert(d, key, Entry(value, None)), Status("OK"))

\* GET that deletes the entry it finds expired
GET_purges(parts, d, t) ==
    IF Len(parts) # 2
    THEN Result(d, Err("usage: GET key"))
    ELSE IF parts[2] \in DOMAIN d /\ ~is_expired(d[parts[2]], t)
         THEN IF d[parts[2]].value.tag = "String"
              THEN Result(d, Bulk(d[parts[2]].value.s))
              ELSE Result(d, WrongType)
         ELSE Result(Remove(d, parts[2]), Nil)

GET(parts, d, t) ==
    IF Len(parts) # 2
    THEN Result(d, Err("usage: GET key"))
    ELSE IF parts[2] \in DOMAIN d /\ ~is_expired(d[parts[2]], t)
         THEN IF d[parts[2]].value.tag = "String"
              THEN Result(d, Bulk(d[parts[2]].value.s))
              ELSE Result(d, WrongType)
         ELSE Result(d, Nil)

\* the insert loop without .rev(): the values end up in reverse order
RECURSIVE InsertFrontFwd(_, _)
InsertFrontFwd(list, vals) ==
    IF vals = <<>> THEN list
    ELSE InsertFrontFwd(<<Head(vals)>> \o list, Tail(vals))

\* for value in parts[2..].iter().rev() { list.insert(0, value) }
RECURSIVE InsertFrontRev(_, _)
InsertFrontRev(list, vals) ==
    IF vals = <<>> THEN list
    ELSE InsertFrontRev(<<vals[Len(vals)]>> \o list, SubSeq(vals, 1, Len(vals) - 1))

\* for value in &parts[2..] { list.push(value) }
RECURSIVE PushAll(_, _)
PushAll(list, vals) ==
    IF vals = <<>> THEN list
    ELSE PushAll(Append(list, Head(vals)), Tail(vals))

\* db.entry(key).or_insert_with(|| Entry { List(Vec::new()), None })
EntryOrInsertList(d, key) ==
    IF key \in DOMAIN d THEN d ELSE Insert(d, key, Entry(ListV(<<>>), None))

\* LPUSH that overwrites a String with the pushed list instead of refusing
LPUSH_coerce(parts, d, t) ==
    IF Len(parts) < 3
    THEN Result(d, Err("usage: LPUSH key value [value ...]"))
    ELSE LET key == parts[2]
             old == IF key \in DOMAIN d /\ d[key].value.tag = "List"
                    THEN d[key].value.l ELSE <<>>
             exp == IF key \in DOMAIN d THEN d[key].expires_at ELSE None
             list == InsertFrontRev(old, SubSeq(parts, 3, Len(parts)))
         IN  Result(Insert(d, key, Entry(ListV(list), exp)), Integer(Len(list)))

LPUSH(parts, d, t) ==
    IF Len(parts) < 3
    THEN Result(d, Err("usage: LPUSH key value [value ...]"))
    ELSE LET key == parts[2]
             d1 == EntryOrInsertList(d, key)
         IN  IF d1[key].value.tag = "List"
             THEN LET list == InsertFrontRev(d1[key].value.l, SubSeq(parts, 3, Len(parts)))
                  IN  Result([d1 EXCEPT ![key].value.l = list], Integer(Len(list)))
             ELSE Result(d1, WrongType)

\* RPUSH that stores the list anew, without the deadline it had
RPUSH_drops_expiry(parts, d, t) ==
    IF Len(parts) < 3
    THEN Result(d, Err("usage: RPUSH key value [value ...]"))
    ELSE LET key == parts[2]
             d1 == EntryOrInsertList(d, key)
         IN  IF d1[key].value.tag = "List"
             THEN LET list == PushAll(d1[key].value.l, SubSeq(parts, 3, Len(parts)))
                  IN  Result(Insert(d1, key, Entry(ListV(list), None)),
                             Integer(Len(list)))
             ELSE Result(d1, WrongType)

RPUSH(parts, d, t) ==
    IF Len(parts) < 3
    THEN Result(d, Err("usage: RPUSH key value [value ...]"))
    ELSE LET key == parts[2]
             d1 == EntryOrInsertList(d, key)
         IN  IF d1[key].value.tag = "List"
             THEN LET list == PushAll(d1[key].value.l, SubSeq(parts, 3, Len(parts)))
                  IN  Result([d1 EXCEPT ![key].value.l = list], Integer(Len(list)))
             ELSE Result(d1, WrongType)

\* LPOP that takes the element at the back instead of the front
LPOP_from_back(parts, d, t) ==
    IF Len(parts) # 2
    THEN Result(d, Err("usage: LPOP key"))
    ELSE LET key == parts[2] IN
         IF key \in DOMAIN d /\ ~is_expired(d[key], t)
         THEN IF d[key].value.tag = "List"
              THEN LET list == d[key].value.l IN
                   IF list = <<>>
                   THEN Result(d, Nil)
                   ELSE LET val == list[Len(list)]
                            rest == SubSeq(list, 1, Len(list) - 1)
                        IN  IF rest = <<>>
                            THEN Result(Remove(d, key), Bulk(val))
                            ELSE Result([d EXCEPT ![key].value.l = rest], Bulk(val))
              ELSE Result(d, WrongType)
         ELSE Result(d, Nil)

LPOP(parts, d, t) ==
    IF Len(parts) # 2
    THEN Result(d, Err("usage: LPOP key"))
    ELSE LET key == parts[2] IN
         IF key \in DOMAIN d /\ ~is_expired(d[key], t)
         THEN IF d[key].value.tag = "List"
              THEN LET list == d[key].value.l IN
                   IF list = <<>>
                   THEN Result(d, Nil)
                   ELSE LET val == Head(list)
                            rest == Tail(list)
                        IN  IF rest = <<>>
                            THEN Result(Remove(d, key), Bulk(val))
                            ELSE Result([d EXCEPT ![key].value.l = rest], Bulk(val))
              ELSE Result(d, WrongType)
         ELSE Result(d, Nil)

\* RPOP that leaves the drained list in the map
RPOP_keeps_empty(parts, d, t) ==
    IF Len(parts) # 2
    THEN Result(d, Err("usage: RPOP key"))
    ELSE LET key == parts[2] IN
         IF key \in DOMAIN d /\ ~is_expired(d[key], t)
         THEN IF d[key].value.tag = "List"
              THEN LET list == d[key].value.l IN
                   IF list # <<>>
                   THEN Result([d EXCEPT ![key].value.l = SubSeq(list, 1, Len(list) - 1)],
                               Bulk(list[Len(list)]))
                   ELSE Result(d, Nil)
              ELSE Result(d, WrongType)
         ELSE Result(d, Nil)

RPOP(parts, d, t) ==
    IF Len(parts) # 2
    THEN Result(d, Err("usage: RPOP key"))
    ELSE LET key == parts[2] IN
         IF key \in DOMAIN d /\ ~is_expired(d[key], t)
         THEN IF d[key].value.tag = "List"
              THEN LET list == d[key].value.l IN
                   IF list # <<>>
                   THEN LET val == list[Len(list)]
                            rest == SubSeq(list, 1, Len(list) - 1)
                        IN  IF rest = <<>>
                            THEN Result(Remove(d, key), Bulk(val))
                            ELSE Result([d EXCEPT ![key].value.l = rest], Bulk(val))
                   ELSE Result(d, Nil)
              ELSE Result(d, WrongType)
         ELSE Result(d, Nil)

LLEN(parts, d, t) ==
    IF Len(parts) # 2
    THEN Result(d, Err("usage: LLEN key"))
    ELSE IF parts[2] \in DOMAIN d /\ ~is_expired(d[parts[2]], t)
         THEN IF d[parts[2]].value.tag = "List"
              THEN Result(d, Integer(Len(d[parts[2]].value.l)))
              ELSE Result(d, WrongType)
         ELSE Result(d, Integer(0))

LRANGE(parts, d, t, oc) ==
    IF Len(parts) # 4
    THEN Result(d, Err("usage: LRANGE key start stop"))
    ELSE LET start == UnwrapOr(ParseI64(parts[3]), 0)
             stop == UnwrapOr(ParseI64(parts[4]), -1)
         IN
         IF parts[2] \in DOMAIN d /\ ~is_expired(d[parts[2]], t)
         THEN IF d[parts[2]].value.tag = "List"
              THEN LET list == d[parts[2]].value.l
                       len == Len(list)
                       actual_start ==
                           AsUsize(Max(IF start < 0 THEN len + start ELSE start, 0))
                       actual_stop ==
                           AsUsize(Min(IF stop < 0 THEN len + stop ELSE stop, len - 1))
                       \* actual_stop - actual_start + 1, before it is cut to usize
                       span == actual_stop - actual_start + 1
                       overflow == actual_start <= actual_stop /\ span >= 2 ^ UsizeBits
                       count == IF actual_start <= actual_stop THEN AsUsize(span) ELSE 0
                       \* actual_start ..= actual_stop.min(list.len().saturating_sub(1))
                       upto == Min(actual_stop, Max(len - 1, 0))
                       idx == {i \in actual_start .. upto : i < len}
                       elems == [j \in 1 .. Cardinality(idx) |-> list[actual_start + j]]
                   \* with overflow checks the + 1 panics (the handler unwinds
                   \* while it holds the lock); without, it wraps
                   IN  IF overflow /\ oc
                       THEN Result(d, Panic)
                       ELSE Result(d, Array(count, elems))
              ELSE Result(d, WrongType)
         ELSE Result(d, Array(0, <<>>))

EXPIRE(parts, d, t) ==
    IF Len(parts) # 3
    THEN Result(d, Err("usage: EXPIRE key seconds"))
    ELSE LET seconds == ParseU64(parts[3]) IN
         IF seconds = None
         THEN Result(d, Integer(0))
         ELSE IF parts[2] \in DOMAIN d
              THEN IF InstantAddOverflows(t, Unwrap(seconds))
                   THEN Result(d, Panic)
                   ELSE Result([d EXCEPT ![parts[2]].expires_at =
                                        Some(t + from_secs(Unwrap(seconds)))],
                               Integer(1))
              ELSE Result(d, Integer(0))

TTL(parts, d, t) ==
    IF Len(parts) # 2
    THEN Result(d, Err("usage: TTL key"))
    ELSE IF parts[2] \in DOMAIN d
         THEN IF d[parts[2]].expires_at # None
              THEN Result(d, Integer(as_secs(
                              duration_since(Unwrap(d[parts[2]].expires_at), t))))
              ELSE Result(d, Integer(-1))
         ELSE Result(d, Integer(-2))

DEL(parts, d, t) ==
    IF Len(parts) # 2
    THEN Result(d, Err("usage: DEL key"))
    ELSE Result(Remove(d, parts[2]),
                Integer(IF parts[2] \in DOMAIN d THEN 1 ELSE 0))

\* iter is the order in which db.iter() visits the keys of the map
KEYS(parts, d, t, iter) ==
    LET keys == SelectSeq(iter, LAMBDA k : \A exp \in d[k].expires_at : exp > t)
    IN  Result(d, Array(Len(keys), keys))

TYPE(parts, d, t) ==
    IF Len(parts) # 2
    THEN Result(d, Err("usage: TYPE key"))
    ELSE IF parts[2] \in DOMAIN d /\ ~is_expired(d[parts[2]], t)
         THEN Result(d, Status(IF d[parts[2]].value.tag = "String"
                               THEN "string" ELSE "list"))
         ELSE Result(d, Status("none"))

PING(parts, d, t) == Result(d, Status("PONG"))

\* SystemTime::now(), in ticks since UNIX_EPOCH
SystemTimeNow(t) == t + WallOffset

\* the snapshot file: absent, or a map from key to SerializableEntry with the
\* time of its last modification
NoFile == [exists |-> FALSE, data |-> <<>>, mtime |-> 0]
File(data, mtime) == [exists |-> TRUE, data |-> data, mtime |-> mtime]

\* std::fs::metadata(..).modified() in whole seconds since UNIX_EPOCH, -1
\* without a file
LASTSAVE(parts, d, f) ==
    Result(d, Integer(IF f.exists THEN as_secs(f.mtime) ELSE -1))

\* The match of process_command on the upper-cased first token.  f is the
\* snapshot file.  The arms SAVE and BGSAVE call save_data, which takes
\* several steps: they are the actions Save and Bgsave below.
process_command(parts, d, t, oc, iter, f) ==
    IF parts = <<>>
    THEN Result(d, Err("empty command"))
    ELSE LET cmd == ToUpper(parts[1]) IN
         CASE cmd = "SET" -> SET(parts, d, t)
           [] cmd = "GET" -> GET(parts, d, t)
           [] cmd = "LPUSH" -> LPUSH(parts, d, t)
           [] cmd = "RPUSH" -> RPUSH(parts, d, t)
           [] cmd = "LPOP" -> LPOP(parts, d, t)
           [] cmd = "RPOP" -> RPOP(parts, d, t)
           [] cmd = "LLEN" -> LLEN(parts, d, t)
           [] cmd = "LRANGE" -> LRANGE(parts, d, t, oc)
           [] cmd = "EXPIRE" -> EXPIRE(parts, d, t)
           [] cmd = "TTL" -> TTL(parts, d, t)
           [] cmd = "DEL" -> DEL(parts, d, t)
           [] cmd = "KEYS" -> KEYS(parts, d, t, iter)
           [] cmd = "TYPE" -> TYPE(parts, d, t)
           [] cmd = "PING" -> PING(parts, d, t)
           [] cmd = "LASTSAVE" -> LASTSAVE(parts, d, f)
           [] OTHER -> Result(d, Err("unknown command"))

\* the sweeper's body: remove every entry with expires_at <= now
cleanup_expired(d, t) ==
    LET expired == {k \in DOMAIN d : \E exp \in d[k].expires_at : exp <= t}
    IN  [k \in (DOMAIN d) \ expired |-> d[k]]

-----------------------------------------------------------------------------
(* save_data and load_data *)

SerializableEntry(v, e) == [value |-> v, expires_in_secs |-> e]

\* the map closure of save_data: the value variant by variant, the deadline
\* as now_secs + exp.duration_since(now).as_secs(), where t0 and now_secs
\* are the clock readings taken at the start of save_data
to_serializable(entry, t0, now_secs) ==
    SerializableEntry(
        CASE entry.value.tag = "String" -> StringV(entry.value.s)
          [] entry.value.tag = "List" -> ListV(entry.value.l),
        {now_secs + as_secs(duration_since(exp, t0)) : exp \in entry.expires_at})

\* load_data without the skip of the entries whose stored expiry has passed
load_data_no_skip(f, t) ==
    IF ~f.exists
    THEN EmptyMap
    ELSE LET now_secs == as_secs(SystemTimeNow(t))
         IN  [k \in DOMAIN f.data |->
                 Entry(CASE f.data[k].value.tag = "String" ->
                                StringV(f.data[k].value.s)
                         [] f.data[k].value.tag = "List" ->
                                ListV(f.data[k].value.l),
                       {t + from_secs(Max(exp - now_secs, 0)) :
                            exp \in f.data[k].expires_in_secs})]

\* load_data into the empty store of a starting process, at clock reading t:
\* no file, no entries; an entry whose stored expiry is <= now_secs is
\* skipped; the others get the deadline now + (exp - now_secs) seconds
load_data(f, t) ==
    IF ~f.exists
    THEN EmptyMap
    ELSE LET now_secs == as_secs(SystemTimeNow(t))
             kept == {k \in DOMAIN f.data :
                        \A exp \in f.data[k].expires_in_secs : exp > now_secs}
         IN  [k \in kept |->
                 Entry(CASE f.data[k].value.tag = "String" ->
                                StringV(f.data[k].value.s)
                         [] f.data[k].value.tag = "List" ->
                                ListV(f.data[k].value.l),
                       {t + from_secs(Max(exp - now_secs, 0)) :
                            exp \in f.data[k].expires_in_secs})]

-----------------------------------------------------------------------------
(* Request lines issued by the clients of the model *)

\* the orders in which a HashMap with key set S may be iterated
IterOrders(S) ==
    {s \in [1 .. Cardinality(S) -> S] : \A i, j \in DOMAIN s : s[i] = s[j] => i = j}

\* v1 .. vn, 1 <= n <= MaxPush
PushVals == UNION {[1 .. n -> ValSet] : n \in 1 .. MaxPush}

\* the seconds tokens: numerals and one token that is no numeral
SecsToks == {ToString(i) : i \in SecsSet} \cup {"x"}

\* the index tokens of LRANGE: from below -len to above len, and a
\* token that is no numeral
IndexToks == {ToString(i) : i \in NumeralRange} \cup {"x"}

\* a push is issued only while the list stays within MaxListLen
RoomFor(k, n) ==
    k \in DOMAIN db /\ db[k].value.tag = "List" => Len(db[k].value.l) + n <= MaxListLen

-----------------------------------------------------------------------------------------------------------------------------------------------------
(* The state machine *)

NoRequest == [parts |-> <<>>, resp |-> Resp("none", 0, "", <<>>)]

\* the response of a command that has not returned yet (SAVE in save_data)
Pending == Resp("pending", 0, "", <<>>)

\* the threads that run save_data: the connection thread, for SAVE, and the
\* thread spawned by BGSAVE
Savers == {"conn", "bg"}

\* save_data of one thread.  pc: "idle" (not in save_data), "lock" (at
\* store.lock()), "filter" (in the iterator chain, todo the keys still to
\* visit, out the entries collected), "write" (at to_string_pretty and
\* fs::write), "done" (SAVE: save_data has returned Ok and the thread has
\* not yet read its next line).  now and now_secs are the locals of that
\* name.
SaveState(pc, t0, now_secs, todo, out) ==
    [pc |-> pc, now |-> t0, now_secs |-> now_secs, todo |-> todo, out |-> out]

Init ==
    /\ db = EmptyMap
    /\ now = 0
    /\ last = NoRequest
    /\ lock = "free"
    /\ poisoned = FALSE
    /\ saves = [s \in Savers |-> SaveState("idle", 0, 0, <<>>, <<>>)]
    /\ file = NoFile

\* handle_client: read one line and run process_command on it.  oc tells
\* whether the build checks arithmetic overflow (the debug profile does, the
\* release profile does not); iter is the order in which the map is iterated.
\* The thread waits at store.lock() (211) while a save holds the lock; on a
\* poisoned mutex lock().unwrap() panics; a handler that panics does so with
\* the lock held and poisons the mutex.
RequestWith(parts, oc, iter) ==
    /\ last = NoRequest
    /\ lock = "free"
    /\ LET r == IF poisoned /\ parts # <<>>
                THEN Result(db, Panic)
                ELSE process_command(parts, db, now, oc, iter, file)
       IN
       /\ db' = r.db
       /\ last' = [parts |-> parts, resp |-> r.resp]
       /\ poisoned' = (poisoned \/ r.resp = Panic)
    /\ saves' = [saves EXCEPT !["conn"] = SaveState("idle", 0, 0, <<>>, <<>>)]
    /\ UNCHANGED <<now, lock, file>>

\* a request whose handler neither iterates the map nor depends on the build
Request(parts) == RequestWith(parts, FALSE, <<>>)

\* handle_client: stream.write_all(response)
Respond ==
    /\ last # NoRequest
    /\ last.resp # Pending
    /\ last' = NoRequest
    /\ UNCHANGED <<db, now, lock, poisoned, saves, file>>

Set == \E k \in KeySet, v \in ValSet : Request(<<"SET", k, v>>)

SetEx ==
    \E k \in KeySet, v \in ValSet, s \in SecsToks :
        Request(<<"SET", k, v, "EX", s>>)

Get == \E c \in {"GET", "get"}, k \in KeySet : Request(<<c, k>>)

Lpush ==
    \E k \in KeySet, vs \in PushVals :
        RoomFor(k, Len(vs)) /\ Request(<<"LPUSH", k>> \o vs)

Rpush ==
    \E k \in KeySet, vs \in PushVals :
        RoomFor(k, Len(vs)) /\ Request(<<"RPUSH", k>> \o vs)

Lpop == \E k \in KeySet : Request(<<"LPOP", k>>)

Rpop == \E k \in KeySet : Request(<<"RPOP", k>>)

Llen == \E k \in KeySet : Request(<<"LLEN", k>>)

\* LRANGE key 0 -1, the whole list
Lrange ==
    \E k \in KeySet, oc \in BOOLEAN :
        RequestWith(<<"LRANGE", k, "0", "-1">>, oc, <<>>)

\* LRANGE with every start and stop
LrangeAny ==
    \E k \in KeySet, a \in IndexToks, b \in IndexToks, oc \in BOOLEAN :
        RequestWith(<<"LRANGE", k, a, b>>, oc, <<>>)

Expire == \E k \in KeySet, s \in SecsToks : Request(<<"EXPIRE", k, s>>)

Ttl == \E k \in KeySet : Request(<<"TTL", k>>)

Del == \E k \in KeySet : Request(<<"DEL", k>>)

Keys == \E iter \in IterOrders(DOMAIN db) : RequestWith(<<"KEYS">>, FALSE, iter)

Type == \E k \in KeySet : Request(<<"TYPE", k>>)

Ping == Request(<<"PING">>)

\* the cleanup thread: sleep, then cleanup_expired
\* (on a poisoned mutex the thread has panicked at store.lock().unwrap())
Sweep ==
    /\ last = NoRequest
    /\ lock = "free"
    /\ ~poisoned
    /\ db' = cleanup_expired(db, now)
    /\ UNCHANGED <<now, last, lock, poisoned, saves, file>>

\* time passes
Tick ==
    /\ last = NoRequest \/ last.resp = Pending
    /\ now < MaxTime
    /\ now' = now + 1
    /\ UNCHANGED <<db, last, lock, poisoned, saves, file>>

Next ==
    \/ Set \/ SetEx \/ Get
    \/ Lpush \/ Rpush \/ Lpop \/ Rpop \/ Llen \/ Lrange
    \/ Expire \/ Ttl \/ Del \/ Keys \/ Type \/ Ping
    \/ Respond \/ Sweep \/ Tick

Spec == Init /\ [][Next]_vars

\* SET .. EX and EXPIRE with the largest u64
SetExMax ==
    \E k \in KeySet, v \in ValSet :
        Request(<<"SET", k, v, "EX", ToString(U64Max)>>)

ExpireMax == \E k \in KeySet : Request(<<"EXPIRE", k, ToString(U64Max)>>)

\* Every request line of Spec, and the deadlines of u64::MAX seconds.
NextFatal == Next \/ SetExMax \/ ExpireMax

SpecFatal == Init /\ [][NextFatal]_vars

\* The sweeper under fair scheduling: its loop (sleep, lock, sweep) runs for
\* as long as the thread lives, so a sweep that can be taken again and
\* again is taken; a response that can be written is written.  The clients
\* set, re-arm and delete keys with deadlines.
NextSweep == SetEx \/ Expire \/ ExpireMax \/ Del \/ Respond \/ Sweep \/ Tick

SpecSweep ==
    Init /\ [][NextSweep]_vars /\ WF_vars(Respond) /\ SF_vars(Sweep)

\* SET with four tokens, with six, and with a fourth token that is not EX
SetOddArity ==
    \E k \in KeySet, v \in ValSet :
        \/ Request(<<"SET", k, v, "EX">>)
        \/ Request(<<"SET", k, v, "EX", "1", "x">>)
        \/ Request(<<"SET", k, v, "PX", "1">>)

\* a command word alone: a token too few for every command with a key
TooFew ==
    \E c \in {"SET", "GET", "DEL", "TTL", "TYPE", "EXPIRE", "LPUSH", "RPUSH",
               "LPOP", "RPOP", "LLEN", "LRANGE"} : Request(<<c>>)

\* a token too few after the key, or a token too many
WrongArity ==
    \E k \in KeySet :
        \/ Request(<<"SET", k>>)
        \/ \E c \in {"GET", "DEL", "TTL", "TYPE", "LPOP", "RPOP", "LLEN"} :
              Request(<<c, k, "x">>)
        \/ Request(<<"EXPIRE", k>>) \/ Request(<<"EXPIRE", k, "1", "x">>)
        \/ Request(<<"LPUSH", k>>) \/ Request(<<"RPUSH", k>>)
        \/ Request(<<"LRANGE", k, "0">>)
        \/ Request(<<"LRANGE", k, "0", "-1", "x">>)

\* Well-formed and ill-formed request lines on strings and lists.
NextArity ==
    \/ Set \/ SetEx \/ SetOddArity \/ TooFew \/ WrongArity
    \/ Get \/ Rpush \/ Expire \/ Del
    \/ Respond \/ Sweep \/ Tick

SpecArity == Init /\ [][NextArity]_vars

Lastsave == Request(<<"LASTSAVE">>)

\* a first token that is no command
Unknown == Request(<<"FOO">>)

\* RPUSH of one value
RpushOne ==
    \E k \in KeySet, v \in ValSet :
        RoomFor(k, 1) /\ Request(<<"RPUSH", k, v>>)

\* Every query, on strings set with a deadline and lists built value by
\* value and given a deadline by EXPIRE; the lines that are answered with
\* an error: a command word alone, an unknown command, SET .. EX with
\* seconds that are no numeral, a command on the wrong kind of value.
NextQuery ==
    \/ SetEx \/ RpushOne \/ Expire
    \/ Get \/ Lpop \/ Rpop \/ Llen \/ Lrange \/ Ttl \/ Keys \/ Type \/ Ping
    \/ Lastsave \/ Unknown \/ TooFew
    \/ Respond \/ Sweep \/ Tick

SpecQuery == Init /\ [][NextQuery]_vars

\* The list commands alone, with LRANGE over every start and stop.
NextRange == Lpush \/ Rpush \/ Lpop \/ Rpop \/ LrangeAny \/ Respond

SpecRange == Init /\ [][NextRange]_vars

-----------------------------------------------------------------------------
(* Persistence: SAVE, BGSAVE, save_data step by step, and the start of a   *)
(* process on the snapshot file                                            *)

\* SAVE: process_command takes the lock (211), drops it (394) and calls
\* save_data; the response is written when save_data has returned
Save ==
    /\ last = NoRequest
    /\ lock = "free"
    /\ IF poisoned
       THEN /\ last' = [parts |-> <<"SAVE">>, resp |-> Panic]
            /\ saves' = [saves EXCEPT
                            !["conn"] = SaveState("idle", 0, 0, <<>>, <<>>)]
       ELSE /\ last' = [parts |-> <<"SAVE">>, resp |-> Pending]
            /\ saves' = [saves EXCEPT
                            !["conn"] = SaveState("lock", 0, 0, <<>>, <<>>)]
    /\ UNCHANGED <<db, now, lock, poisoned, file>>

\* BGSAVE: with the lock held, spawn the thread that calls save_data, and
\* return the acknowledgement.  (One worker at a time in the model.)
Bgsave ==
    /\ last = NoRequest
    /\ lock = "free"
    /\ saves["bg"].pc = "idle"
    /\ IF poisoned
       THEN /\ last' = [parts |-> <<"BGSAVE">>, resp |-> Panic]
            /\ saves' = [saves EXCEPT
                            !["conn"] = SaveState("idle", 0, 0, <<>>, <<>>)]
       ELSE /\ last' = [parts |-> <<"BGSAVE">>,
                        resp |-> Status("Background saving started")]
            /\ saves' = [saves EXCEPT
                            !["conn"] = SaveState("idle", 0, 0, <<>>, <<>>),
                            !["bg"].pc = "lock"]
    /\ UNCHANGED <<db, now, lock, poisoned, file>>

\* save_data 101-106: take the lock, read the two clocks; db.iter() fixes
\* the order in which the entries are visited.  On a poisoned mutex
\* lock().unwrap() panics and the thread ends.
SaveLock(s) ==
    /\ saves[s].pc = "lock"
    /\ lock = "free"
    /\ IF poisoned
       THEN /\ saves' = [saves EXCEPT ![s].pc = "idle"]
            /\ last' = IF s = "conn" THEN [last EXCEPT !.resp = Panic] ELSE last
            /\ UNCHANGED lock
       ELSE /\ \E iter \in IterOrders(DOMAIN db) :
                  saves' = [saves EXCEPT ![s] =
                      SaveState("filter", now, as_secs(SystemTimeNow(now)),
                                iter, <<>>)]
            /\ lock' = s
            /\ UNCHANGED last
    /\ UNCHANGED <<db, now, poisoned, file>>

\* save_data 108-123, one entry of the iterator chain: the filter calls
\* is_expired, which reads the clock anew; the map converts the entry
SaveFilter(s) ==
    /\ saves[s].pc = "filter"
    /\ saves[s].todo # <<>>
    /\ LET k == Head(saves[s].todo) IN
       saves' = [saves EXCEPT
           ![s].todo = Tail(@),
           ![s].out = IF is_expired(db[k], now)
                      THEN @
                      ELSE Insert(@, k, to_serializable(db[k], saves[s].now,
                                                        saves[s].now_secs))]
    /\ UNCHANGED <<db, now, last, lock, poisoned, file>>

\* save_data 123-126: the chain is exhausted, collect() returns; the thread
\* goes on to serialize and write
SaveCollect(s) ==
    /\ saves[s].pc = "filter"
    /\ saves[s].todo = <<>>
    /\ saves' = [saves EXCEPT ![s].pc = "write"]
    /\ UNCHANGED <<db, now, last, lock, poisoned, file>>

\* save_data 126-132: to_string_pretty, fs::write, return Ok(()); the
\* guard db is dropped at the return.  SAVE answers +OK.
SaveWrite(s) ==
    /\ saves[s].pc = "write"
    /\ file' = File(saves[s].out, SystemTimeNow(now))
    /\ saves' = [saves EXCEPT ![s] =
                    IF s = "conn"
                    THEN SaveState("done", @.now, @.now_secs, <<>>, <<>>)
                    ELSE SaveState("idle", 0, 0, <<>>, <<>>)]
    /\ lock' = IF lock = s THEN "free" ELSE lock
    /\ last' = IF s = "conn" THEN [last EXCEPT !.resp = Status("OK")] ELSE last
    /\ UNCHANGED <<db, now, poisoned>>

\* the process ends and a new one starts: main creates the store and calls
\* load_data on the file (48-52); no thread of the old process is left
Restart ==
    /\ \A s \in Savers : saves[s].pc # "write"
    /\ db' = load_data(file, now)
    /\ last' = NoRequest
    /\ lock' = "free"
    /\ poisoned' = FALSE
    /\ saves' = [s \in Savers |-> SaveState("idle", 0, 0, <<>>, <<>>)]
    /\ UNCHANGED <<now, file>>

\* SET with a deadline of more than one second
SetExLong ==
    \E k \in KeySet, v \in ValSet : Request(<<"SET", k, v, "EX", "2">>)

\* A process that ends after its first SAVE and is started again: commands
\* and sweeps until the snapshot is written, then a restart on the file.
NextSnap ==
    \/ ~file.exists /\ (Set \/ SetEx \/ SetExLong \/ Lpush \/ Rpush \/ Expire
                           \/ Save \/ Sweep)
    \/ SaveLock("conn") \/ SaveFilter("conn") \/ SaveCollect("conn")
    \/ SaveWrite("conn")
    \/ saves["conn"].pc = "done" /\ last = NoRequest /\ Restart
    \/ Respond \/ Tick

SpecSnap == Init /\ [][NextSnap]_vars

\* Strings with a deadline are set and deleted, the sweeper runs, SAVE and
\* BGSAVE save, in every interleaving.
NextSave ==
    \/ SetEx \/ Del \/ Save \/ Bgsave
    \/ \E s \in Savers :
          SaveLock(s) \/ SaveFilter(s) \/ SaveCollect(s) \/ SaveWrite(s)
    \/ Respond \/ Sweep \/ Tick

SpecSave == Init /\ [][NextSave]_vars

\* The threads that take the lock, under fair scheduling: a thread that
\* can take the free lock again and again takes it (SaveLock, Sweep), and a
\* thread that can go on does (the steps of save_data with the lock held,
\* the write of a response).  The clients set keys, with and without a
\* deadline of u64::MAX seconds, and save.
NextLock ==
    \/ Set \/ SetExMax \/ Save \/ Bgsave
    \/ \E s \in Savers :
          SaveLock(s) \/ SaveFilter(s) \/ SaveCollect(s) \/ SaveWrite(s)
    \/ Respond \/ Sweep \/ Tick

SpecLock ==
    /\ Init /\ [][NextLock]_vars
    /\ \A s \in Savers :
          /\ SF_vars(SaveLock(s))
          /\ WF_vars(SaveFilter(s) \/ SaveCollect(s) \/ SaveWrite(s))
    /\ WF_vars(Respond)
    /\ SF_vars(Sweep)

-----------------------------------------------------------------------------
(* What the claims speak of *)

\* the command and the key of a request
CmdOf(req) == IF req.parts = <<>> THEN "" ELSE ToUpper(req.parts[1])
KeyOf(req) == IF Len(req.parts) >= 2 THEN req.parts[2] ELSE ""
\* the values v1 .. vn of a push
ValsOf(req) == SubSeq(req.parts, 3, Len(req.parts))

\* the step processes a request
RequestStep == last = NoRequest /\ last' # NoRequest

\* k is in the map
Present(k) == k \in DOMAIN db
\* k is in the map and its deadline, if any, is still ahead
LiveKey(k) == k \in DOMAIN db /\ \A exp \in db[k].expires_at : exp > now
\* k is in the map and its deadline has passed: dead, not yet swept
DeadKey(k) == k \in DOMAIN db /\ \E exp \in db[k].expires_at : exp <= now
HoldsString(k) == db[k].value.tag = "String"
HoldsList(k) == db[k].value.tag = "List"

\* the replies of the querying commands for key k in map d at time t
GetOf(d, t, k) == GET(<<"GET", k>>, d, t).resp
TypeOf(d, t, k) == TYPE(<<"TYPE", k>>, d, t).resp
TtlOf(d, t, k) == TTL(<<"TTL", k>>, d, t).resp
LlenOf(d, t, k) == LLEN(<<"LLEN", k>>, d, t).resp
LrangeAllOf(d, t, k) == LRANGE(<<"LRANGE", k, "0", "-1">>, d, t, TRUE).resp

ListCmds == {"LPUSH", "RPUSH", "LPOP", "RPOP", "LLEN", "LRANGE"}

-----------------------------------------------------------------------------
\* C1: a list command on a live key holding a String, and GET on a live key
\* holding a List, return the wrong-kind-of-value error and leave the map
\* unchanged: a following GET still returns the string, a following
\* LRANGE k 0 -1 still returns the list.
C1_TypeGuard ==
    [][\A k \in KeySet :
        (RequestStep /\ KeyOf(last') = k /\ LiveKey(k)) =>
            /\ (HoldsString(k) /\ CmdOf(last') \in ListCmds) =>
                   /\ last'.resp = WrongType
                   /\ db' = db
                   /\ GetOf(db', now', k) = Bulk(db[k].value.s)
            /\ (HoldsList(k) /\ CmdOf(last') = "GET") =>
                   /\ last'.resp = WrongType
                   /\ db' = db
                   /\ LrangeAllOf(db', now', k)
                        = Array(Len(db[k].value.l), db[k].value.l)
      ]_vars

\* C1 witness: an LPUSH on a live String was just refused
C1_Witness ==
    /\ CmdOf(last) = "LPUSH"
    /\ last.resp = WrongType
    /\ LiveKey(KeyOf(last))
    /\ HoldsString(KeyOf(last))

\* every List in the map has an element
NoEmptyList == \A k \in DOMAIN db : HoldsList(k) => db[k].value.l # <<>>

\* C2: no key is ever mapped to an empty List; a pop that takes the last
\* element of a live list removes the key in the same command, after which
\* LLEN gives 0, TYPE gives none and TTL gives -2.
C2_Draining ==
    [][/\ NoEmptyList
       /\ NoEmptyList'
       /\ \A k \in KeySet :
            (/\ RequestStep
             /\ KeyOf(last') = k
             /\ CmdOf(last') \in {"LPOP", "RPOP"}
             /\ LiveKey(k) /\ HoldsList(k) /\ Len(db[k].value.l) = 1) =>
                /\ k \notin DOMAIN db'
                /\ LlenOf(db', now', k) = Integer(0)
                /\ TypeOf(db', now', k) = Status("none")
                /\ TtlOf(db', now', k) = Integer(-2)
      ]_vars

\* C2 witness: an RPOP just returned the only element and the key is gone
C2_Witness ==
    /\ CmdOf(last) = "RPOP"
    /\ last.resp.t = "bulk"
    /\ KeyOf(last) \notin DOMAIN db

\* C3: a key whose deadline has passed but which is still in the map is
\* treated as a key that was never set: GET nil, TYPE none, LLEN 0, LRANGE
\* the empty array, LPOP and RPOP nil, KEYS without the key; whatever the
\* type of the stored value.  No command on the key answers with a bulk
\* string or with array elements, so none returns the dead value.
C3_LazyExpiration ==
    [][\A k \in KeySet :
        (RequestStep /\ DeadKey(k)) =>
            /\ KeyOf(last') = k =>
                /\ last'.resp.t # "bulk"
                /\ last'.resp.elems = <<>>
                /\ CmdOf(last') = "GET" => last'.resp = Nil
                /\ CmdOf(last') = "TYPE" => last'.resp = Status("none")
                /\ CmdOf(last') = "LLEN" => last'.resp = Integer(0)
                /\ CmdOf(last') = "LRANGE" => last'.resp = Array(0, <<>>)
                /\ CmdOf(last') \in {"LPOP", "RPOP"} => last'.resp = Nil
            /\ CmdOf(last') = "KEYS" =>
                \A i \in DOMAIN last'.resp.elems : last'.resp.elems[i] # k
      ]_vars

\* C3 witness: a GET on a dead String that is still in the map gave nil
C3_Witness ==
    /\ CmdOf(last) = "GET"
    /\ last.resp = Nil
    /\ DeadKey(KeyOf(last))
    /\ HoldsString(KeyOf(last))

\* C4: TTL k gives -2 exactly when k is missing or its deadline has passed
\* (that is, exactly when TYPE k gives none), -1 only for a live key without
\* expiry, and a number >= 0 only for a live key with an expiry.
C4_TtlAbsentSentinel ==
    \A k \in KeySet :
        last.parts = <<"TTL", k>> =>
            /\ (last.resp = Integer(-2)) <=> ~LiveKey(k)
            /\ (last.resp = Integer(-2)) <=> (TypeOf(db, now, k) = Status("none"))
            /\ last.resp = Integer(-1) => LiveKey(k) /\ db[k].expires_at = None
            /\ last.resp.n >= 0 => LiveKey(k) /\ db[k].expires_at # None

\* the step is a SET, LPUSH or RPUSH on key k
Recreates(k) ==
    RequestStep /\ KeyOf(last') = k /\ CmdOf(last') \in {"SET", "LPUSH", "RPUSH"}

\* C5: once the deadline of an entry has passed, no step other than a SET,
\* LPUSH or RPUSH on the key makes the key live again with its old value.
C5_OneDirectional ==
    [][\A k \in KeySet :
        (DeadKey(k) /\ ~Recreates(k)) =>
            ~(LiveKey(k)' /\ db'[k].value = db[k].value)
      ]_vars

\* C6: LPUSH and RPUSH on a key whose entry is dead but still in the map
\* create a fresh list: they return the number of values pushed, and
\* afterwards the key is a live list of exactly those values, of the length
\* returned.
C6_PushOnDeadKey ==
    [][\A k \in KeySet :
        (/\ RequestStep
         /\ KeyOf(last') = k
         /\ CmdOf(last') \in {"LPUSH", "RPUSH"}
         /\ DeadKey(k)) =>
            /\ last'.resp = Integer(Len(ValsOf(last')))
            /\ LiveKey(k)'
            /\ db'[k].value = ListV(ValsOf(last'))
            /\ LlenOf(db', now', k) = last'.resp
      ]_vars

\* C7: on a key that is missing (L = <<>>) or holds a live list L,
\* RPUSH k v1 .. vn makes the list L \o <<v1 .. vn>> and LPUSH k v1 .. vn
\* makes it <<v1 .. vn>> \o L; both return Len(L) + n, and LRANGE k 0 -1
\* then returns every element of the new list in order.
C7_PushOrder ==
    [][\A k \in KeySet :
        (/\ RequestStep
         /\ KeyOf(last') = k
         /\ CmdOf(last') \in {"LPUSH", "RPUSH"}
         /\ ~Present(k) \/ (LiveKey(k) /\ HoldsList(k))) =>
            LET L == IF Present(k) THEN db[k].value.l ELSE <<>>
                vs == ValsOf(last')
                new == IF CmdOf(last') = "RPUSH" THEN L \o vs ELSE vs \o L
            IN  /\ k \in DOMAIN db'
                /\ db'[k].value = ListV(new)
                /\ last'.resp = Integer(Len(L) + Len(vs))
                /\ LrangeAllOf(db', now', k) = Array(Len(new), new)
      ]_vars

\* C7 witness: an LPUSH of one value onto a live list of one other value has
\* just put the pushed value in front and returned 2
C7_Witness ==
    /\ CmdOf(last) = "LPUSH"
    /\ Len(last.parts) = 3
    /\ last.resp = Integer(2)
    /\ LiveKey(KeyOf(last))
    /\ HoldsList(KeyOf(last))
    /\ Len(db[KeyOf(last)].value.l) = 2
    /\ db[KeyOf(last)].value.l[1] = last.parts[3]
    /\ db[KeyOf(last)].value.l[2] # last.parts[3]

\* the replies of n successive pops (cmd is LPOP or RPOP) of key k
RECURSIVE Drain(_, _, _, _, _)
Drain(cmd, d, t, k, n) ==
    IF n = 0 THEN <<>>
    ELSE LET r == process_command(<<cmd, k>>, d, t, FALSE, <<>>, NoFile)
         IN  <<r.resp>> \o Drain(cmd, r.db, t, k, n - 1)

\* C8: on a live list <<e1 .. en>>, n >= 1, LPOP returns e1 and leaves
\* <<e2 .. en>>, RPOP returns en and leaves <<e1 .. en-1>> (the key is removed
\* when nothing is left); on a missing or dead key they return nil and change
\* nothing.  After RPUSH k v1 .. vn on a missing key, n LPOPs return
\* v1 .. vn in that order, n RPOPs return vn .. v1, and one more pop nil.
C8_PopSemantics ==
    [][\A k \in KeySet :
        (RequestStep /\ KeyOf(last') = k) =>
            /\ (/\ CmdOf(last') \in {"LPOP", "RPOP"}
                /\ LiveKey(k) /\ HoldsList(k) /\ Len(db[k].value.l) >= 1) =>
                   LET l == db[k].value.l
                       front == CmdOf(last') = "LPOP"
                       val == IF front THEN l[1] ELSE l[Len(l)]
                       rest == IF front THEN SubSeq(l, 2, Len(l))
                               ELSE SubSeq(l, 1, Len(l) - 1)
                   IN  /\ last'.resp = Bulk(val)
                       /\ IF rest = <<>>
                          THEN k \notin DOMAIN db'
                          ELSE k \in DOMAIN db' /\ db'[k].value = ListV(rest)
                       /\ \A j \in KeySet \ {k} :
                            /\ (j \in DOMAIN db') = (j \in DOMAIN db)
                            /\ j \in DOMAIN db => db'[j] = db[j]
            /\ (CmdOf(last') \in {"LPOP", "RPOP"} /\ ~LiveKey(k)) =>
                   last'.resp = Nil /\ db' = db
            /\ (CmdOf(last') = "RPUSH" /\ ~Present(k)) =>
                   LET vs == ValsOf(last')
                       n == Len(vs)
                   IN  /\ Drain("LPOP", db', now', k, n + 1)
                            = [i \in 1 .. n + 1 |->
                                 IF i <= n THEN Bulk(vs[i]) ELSE Nil]
                       /\ Drain("RPOP", db', now', k, n + 1)
                            = [i \in 1 .. n + 1 |->
                                 IF i <= n THEN Bulk(vs[n + 1 - i]) ELSE Nil]
      ]_vars

\* C8 witness: an LPOP just returned the front element a of a list whose
\* other element b stays
C8_Witness ==
    /\ CmdOf(last) = "LPOP"
    /\ last.resp = Bulk("a")
    /\ LiveKey(KeyOf(last))
    /\ db[KeyOf(last)].value = ListV(<<"b">>)

\* the integer a numeral token stands for
IsNumeral(tok) == \E i \in NumeralRange : ToString(i) = tok
NumOf(tok) == CHOOSE i \in NumeralRange : ToString(i) = tok

\* C9: LRANGE k start stop on a live list of length len >= 1 returns an array
\* whose count header equals the number of elements that follow, the elements
\* being list[s..e] with s = max(0, start or len+start) and
\* e = min(len-1, stop or len+stop), and the empty array whenever s > e.
C9_LrangeClamped ==
    [][\A k \in KeySet :
        (/\ RequestStep
         /\ CmdOf(last') = "LRANGE"
         /\ KeyOf(last') = k
         /\ LiveKey(k) /\ HoldsList(k) /\ Len(db[k].value.l) >= 1
         /\ IsNumeral(last'.parts[3]) /\ IsNumeral(last'.parts[4])) =>
            LET l == db[k].value.l
                len == Len(l)
                start == NumOf(last'.parts[3])
                stop == NumOf(last'.parts[4])
                s == Max(0, IF start >= 0 THEN start ELSE len + start)
                e == Min(len - 1, IF stop >= 0 THEN stop ELSE len + stop)
                expected == IF s > e THEN <<>> ELSE SubSeq(l, s + 1, e + 1)
            IN  /\ last'.resp.t = "array"
                /\ last'.resp.n = Len(last'.resp.elems)
                /\ last'.resp = Array(Len(expected), expected)
      ]_vars

\* C10: after SET k v the key is the String v without deadline, whatever it
\* held before: GET gives v, TYPE string, TTL -1; after SET k v EX s the key
\* is the String v with deadline now + s.
C10_SetOverwrites ==
    \A k \in KeySet :
        (CmdOf(last) = "SET" /\ KeyOf(last) = k) =>
            /\ Len(last.parts) = 3 =>
                /\ last.resp = Status("OK")
                /\ k \in DOMAIN db
                /\ db[k] = Entry(StringV(last.parts[3]), None)
                /\ GetOf(db, now, k) = Bulk(last.parts[3])
                /\ TypeOf(db, now, k) = Status("string")
                /\ TtlOf(db, now, k) = Integer(-1)
            /\ (Len(last.parts) = 5 /\ last.parts[4] = "EX"
                  /\ IsNumeral(last.parts[5])) =>
                /\ last.resp = Status("OK")
                /\ k \in DOMAIN db
                /\ db[k] = Entry(StringV(last.parts[3]),
                                 Some(now + NumOf(last.parts[5]) * TicksPerSec))

\* C10 witness: a SET without EX has just been answered OK and the key
\* holds the new string without deadline
C10_Witness ==
    /\ CmdOf(last) = "SET"
    /\ Len(last.parts) = 3
    /\ last.resp = Status("OK")
    /\ db[KeyOf(last)] = Entry(StringV(last.parts[3]), None)

-----------------------------------------------------------------------------
\* C11: DEL k returns 1 and removes the key when k is present and live, and
\* returns 0 when k is absent, absent covering a key that was never set and
\* an entry whose deadline has passed but which is not yet swept; after any
\* DEL k the key is out of the map and an immediately repeated DEL k
\* returns 0.
C11_DelCounts ==
    [][\A k \in KeySet :
        (RequestStep /\ last'.parts = <<"DEL", k>>) =>
            /\ LiveKey(k) => last'.resp = Integer(1)
            /\ ~LiveKey(k) => last'.resp = Integer(0)
            /\ k \notin DOMAIN db'
            /\ DEL(<<"DEL", k>>, db', now').resp = Integer(0)
      ]_vars

-----------------------------------------------------------------------------
\* the step starts a new process on the snapshot that the SAVE of the old
\* one wrote; db is the store as it was when that save took the lock
LoadStep ==
    /\ saves["conn"].pc = "done"
    /\ saves'["conn"].pc = "idle"
    /\ last' = NoRequest
\* the clock when the save read it, and the ticks from then to the load
SavedAt == saves["conn"].now
Elapsed == now - SavedAt
\* the whole seconds of wall-clock time from the save to the load
ElapsedSecs == as_secs(SystemTimeNow(now)) - saves["conn"].now_secs
\* the ticks k had left at the save
Remaining(k) == Unwrap(db[k].expires_at) - SavedAt

\* C12 as stated: save, then load into a fresh store after a time d.  (i) a
\* key live at the save without deadline is present with the same type and
\* value and without deadline; (ii) a key live at the save with remaining
\* time r > d is present with the same value and remaining time r - d;
\* (iii) a key whose stored Unix expiry is <= the wall clock at the load, and
\* a key already expired at the save, is absent; lists keep their order.
C12_RoundTripExact ==
    [][LoadStep =>
        \A k \in DOMAIN db :
            /\ db[k].expires_at = None =>
                  k \in DOMAIN db' /\ db'[k] = db[k]
            /\ (db[k].expires_at # None /\ Remaining(k) > Elapsed) =>
                  /\ k \in DOMAIN db'
                  /\ db'[k].value = db[k].value
                  /\ db'[k].expires_at = Some(now + (Remaining(k) - Elapsed))
            /\ (k \in DOMAIN file.data /\
                \E exp \in file.data[k].expires_in_secs :
                    exp <= as_secs(SystemTimeNow(now))) => k \notin DOMAIN db'
            /\ (db[k].expires_at # None /\ Remaining(k) <= 0) =>
                  k \notin DOMAIN db'
      ]_vars

\* C12, amended: as stated, with (ii) in whole seconds: the file stores
\* the deadline in whole Unix seconds, so a key live at the save with r
\* remaining is present after the load when floor(r) exceeds the whole
\* seconds e the wall clock has advanced, with the same value and with
\* floor(r) - e seconds remaining.
C12_RoundTrip ==
    [][LoadStep =>
        \A k \in DOMAIN db :
            /\ db[k].expires_at = None =>
                  k \in DOMAIN db' /\ db'[k] = db[k]
            /\ (db[k].expires_at # None /\ Remaining(k) > 0
                  /\ as_secs(Remaining(k)) > ElapsedSecs) =>
                  /\ k \in DOMAIN db'
                  /\ db'[k].value = db[k].value
                  /\ db'[k].expires_at =
                        Some(now + from_secs(as_secs(Remaining(k)) - ElapsedSecs))
            /\ (k \in DOMAIN file.data /\
                \E exp \in file.data[k].expires_in_secs :
                    exp <= as_secs(SystemTimeNow(now))) => k \notin DOMAIN db'
            /\ (db[k].expires_at # None /\ Remaining(k) <= 0) =>
                  k \notin DOMAIN db'
      ]_vars

\* C12 witness: a process started on a snapshot written at least a second
\* of wall-clock time before; it holds a two-element list and a key whose
\* deadline came through the file
C12_Witness ==
    /\ file.exists
    /\ saves["conn"].pc = "idle"
    /\ last = NoRequest
    /\ as_secs(SystemTimeNow(now)) > as_secs(file.mtime)
    /\ \E k \in DOMAIN db : db[k].value = ListV(<<"a", "b">>)
    /\ \E k \in DOMAIN db :
          db[k].expires_at # None /\ db[k].value = file.data[k].value

-----------------------------------------------------------------------------
\* C13: a save holds the store lock only while it copies the view of the
\* store and has released it when the snapshot is serialized and written:
\* no thread is at the file write while it holds the store lock.
C13_WriteOutsideLock ==
    \A s \in Savers : saves[s].pc = "write" => lock # s

-----------------------------------------------------------------------------
\* the step ends the file write of the save of thread s
WriteStep(s) == saves[s].pc = "write" /\ saves'[s].pc # "write"

\* what a save that read the clocks as t0 and now_secs writes for the
\* entries of map d that are live at the instant t
LiveAt(d, t, t0, now_secs) ==
    [k \in {x \in DOMAIN d : ~is_expired(d[x], t)} |->
        to_serializable(d[k], t0, now_secs)]

\* C14: in every interleaving of commands, sweeper and saves, the content of
\* the file after the write of a save is the set of the live entries that
\* the store held at one single instant during that save (the store does
\* not change while the save holds the lock): no expired entry, no
\* half-applied command, no mix of two saves.
C14_SnapshotOfOneInstant ==
    [][\A s \in Savers :
        WriteStep(s) =>
            \E t \in saves[s].now .. now :
                file'.data = LiveAt(db, t, saves[s].now, saves[s].now_secs)
      ]_vars

-----------------------------------------------------------------------------
\* C16: no command is fatal: for every command line, SET .. EX and EXPIRE
\* with any u64 seconds included, process_command returns a response and
\* releases the store lock: it never unwinds while the lock is held, so the
\* mutex is never poisoned.
C16_NoFatalCommand ==
    /\ last.resp # Panic
    /\ ~poisoned

-----------------------------------------------------------------------------
\* the step is a run of the sweeper
SweepStep == last = NoRequest /\ last' = NoRequest /\ now' = now /\ db' # db

\* C15: a run of the sweeper removes exactly the entries whose deadline is
\* <= now and leaves every other entry as it is; under fair scheduling of
\* the sweeper an entry whose deadline has passed is eventually out of the
\* map, or a SET, EXPIRE or DEL on it comes first, so no dead entry stays
\* for ever.
C15_SweeperRemovesDead ==
    /\ [][SweepStep =>
            /\ DOMAIN db' = {k \in DOMAIN db : ~is_expired(db[k], now)}
            /\ \A k \in DOMAIN db' : db'[k] = db[k]
         ]_vars
    /\ \A k \in KeySet : DeadKey(k) ~> ~DeadKey(k)

-----------------------------------------------------------------------------
\* the token counts the command table allows for a line
ArityOk(parts) ==
    LET cmd == ToUpper(parts[1])
        n == Len(parts)
    IN  CASE cmd = "SET" -> n = 3 \/ (n = 5 /\ ToUpper(parts[4]) = "EX")
          [] cmd \in {"GET", "DEL", "TTL", "TYPE", "LPOP", "RPOP", "LLEN"} -> n = 2
          [] cmd = "EXPIRE" -> n = 3
          [] cmd \in {"LPUSH", "RPUSH"} -> n >= 3
          [] cmd = "LRANGE" -> n = 4
          [] OTHER -> TRUE

\* C17: a command with the wrong number of tokens is rejected without
\* effect.  SET takes 3 tokens, or 5 with EX as the fourth: a SET with 4
\* tokens, with more than 5, or with a fourth token other than EX is
\* answered with an error and stores nothing, and so is SET .. EX with
\* seconds that are no numeral.
C17_ArityRejected ==
    [][RequestStep =>
        LET parts == last'.parts IN
        /\ ~ArityOk(parts) => (last'.resp.t = "err" /\ db' = db)
        /\ (ToUpper(parts[1]) = "SET" /\ Len(parts) = 5
              /\ ToUpper(parts[4]) = "EX" /\ ParseU64(parts[5]) = None) =>
                (last'.resp.t = "err" /\ db' = db)
      ]_vars

-----------------------------------------------------------------------------
QueryCmds == {"GET", "TTL", "TYPE", "LLEN", "LRANGE", "KEYS", "PING", "LASTSAVE"}

\* C18: GET, TTL, TYPE, LLEN, LRANGE, KEYS, PING and LASTSAVE, LPOP and RPOP
\* on a key that is missing or expired, and every command that answers with
\* an error, leave the map exactly as it was; an expired entry is not
\* deleted by being accessed.
C18_QueriesDoNotMutate ==
    [][RequestStep =>
        ((\/ CmdOf(last') \in QueryCmds
          \/ CmdOf(last') \in {"LPOP", "RPOP"} /\ ~LiveKey(KeyOf(last'))
          \/ last'.resp.t = "err") => db' = db)
      ]_vars

\* C18 witness: GET on an entry whose deadline has passed has answered nil
\* and the entry is still in the map
C18_Witness ==
    /\ CmdOf(last) = "GET"
    /\ last.resp = Nil
    /\ DeadKey(KeyOf(last))

-----------------------------------------------------------------------------
\* C19: no deadlock: the thread that holds the lock can always go on; under
\* fair scheduling every thread that requests the store lock acquires it,
\* and the save that holds it completes and releases it.  (SAVE has dropped
\* the lock of process_command when save_data requests it; BGSAVE answers
\* without waiting for its worker, whose save_data requests the lock when
\* the command has returned.)
C19_LockProgress ==
    /\ [](lock # "free" => saves[lock].pc \in {"filter", "write"})
    /\ \A s \in Savers : (saves[s].pc = "lock") ~> (lock = s)
    /\ \A s \in Savers : (lock = s) ~> (lock # s /\ file.exists)

-----------------------------------------------------------------------------
\* the entry of key k is the same before and after the step
SameEntry(k) ==
    /\ (k \in DOMAIN db) = (k \in DOMAIN db')
    /\ k \in DOMAIN db => db'[k] = db[k]

\* the step discards the entry of k or changes its deadline
DeadlineTouched(k) ==
    /\ k \in DOMAIN db
    /\ k \notin DOMAIN db' \/ db'[k].expires_at # db[k].expires_at

\* C20: a push onto an existing live list and a pop that does not drain the
\* list leave the deadline of the key as it is; a list created by a push on
\* an absent key has no deadline; a command naming k leaves the entry of
\* every other key unchanged; only SET, EXPIRE and DEL on the key, a pop
\* that drains it and the sweeper change or discard a deadline.
C20_ListsKeepDeadline ==
    [][\A k \in KeySet :
        /\ (RequestStep /\ KeyOf(last') = k) =>
              /\ \A j \in KeySet \ {k} : SameEntry(j)
              /\ (CmdOf(last') \in {"LPUSH", "RPUSH"} /\ Len(last'.parts) >= 3) =>
                    /\ (LiveKey(k) /\ HoldsList(k)) =>
                          /\ k \in DOMAIN db'
                          /\ db'[k].expires_at = db[k].expires_at
                    /\ k \notin DOMAIN db =>
                          /\ k \in DOMAIN db'
                          /\ db'[k].expires_at = None
              /\ (CmdOf(last') \in {"LPOP", "RPOP"} /\ k \in DOMAIN db
                    /\ k \in DOMAIN db') =>
                    db'[k].expires_at = db[k].expires_at
        /\ DeadlineTouched(k) =>
              \/ ~RequestStep /\ last' = last
              \/ /\ RequestStep
                 /\ KeyOf(last') = k
                 /\ \/ CmdOf(last') \in {"SET", "EXPIRE", "DEL"}
                    \/ CmdOf(last') \in {"LPOP", "RPOP"} /\ k \notin DOMAIN db'
      ]_vars

\* C20 witness: an RPUSH onto a list with a deadline has been answered and
\* the key still has its deadline, ahead of the clock
C20_Witness ==
    /\ CmdOf(last) = "RPUSH"
    /\ last.resp = Integer(2)
    /\ LiveKey(KeyOf(last))
    /\ db[KeyOf(last)].expires_at # None

====
